---- MODULE Spec2Model ----
(***************************************************************************)
(* Model of the Log4j2 plugin cache combiner of singlejar                  *)
(* (src/src/tools/singlejar/log4j2_plugin_dat_combiner.cc).                *)
(*                                                                         *)
(* A string is a sequence of byte values.  A std::map is a sequence of     *)
(* <<key, value>> pairs kept in ascending key order, which is the order    *)
(* its iterators visit.  A byte buffer is a sequence of byte values.       *)
(* The host is little-endian, as the unconditional swapByteOrder of the    *)
(* source assumes.                                                         *)
(***************************************************************************)
EXTENDS Integers, Sequences, FiniteSets, TLC

VARIABLES
  categories_,      \* Log4J2PluginDatCombiner::categories_, the accumulator
  no_duplicates_,   \* Log4J2PluginDatCombiner::no_duplicates_ (strict mode)
  inflater_,        \* whether the lazily created Inflater exists
  concatenator_,    \* the byte chunks handed to concatenator_->Append, in order
  method,           \* lh->compression_method() of the entry last given to Merge
  newCategories,    \* Merge's local: the catalog decoded by the last Merge
  diag,             \* the diag_errx that ended the process, if any
  pc,               \* codec runs: "write", "load" or "done"; "run" for the combiner
  cat,              \* codec runs: the catalog given to writeLog4j2PluginCacheFile
  buf,              \* codec runs: the buffer written, or given to the loader
  fromCat,          \* codec runs: whether buf was written from cat
  loaded            \* codec runs: what loadLog4j2PluginCacheFile returned

vars == <<categories_, no_duplicates_, inflater_, concatenator_, method,
          newCategories, diag, pc, cat, buf, fromCat, loaded>>

(***************************************************************************)
(* Bounds of the model.                                                    *)
(***************************************************************************)
\* entries in one input buffer
MaxWireEntries == 2
\* OutputEntry calls in one run
MaxOutputs == 2
\* largest indeterminate count or length a read past the end may yield
MaxGarbage == 1

(***************************************************************************)
(* Program constants.                                                      *)
(***************************************************************************)
SizeofInt == 4
SizeofUint16 == 2
SizeofBool == 1
Z_NO_COMPRESSION == 0
Z_DEFLATED == 8
\* a compression method that is neither of the two (bzip2 in the zip format)
OtherMethods == {12}

(***************************************************************************)
(* Strings: std::string compared by operator<, bytewise lexicographic.     *)
(***************************************************************************)
Min(a, b) == IF a < b THEN a ELSE b

StrLess(a, b) ==
  \E i \in 1..(Min(Len(a), Len(b)) + 1) :
    /\ \A j \in 1..(i - 1) : a[j] = b[j]
    /\ \/ i > Len(a) /\ i <= Len(b)
       \/ i <= Len(a) /\ i <= Len(b) /\ a[i] < b[i]

(***************************************************************************)
(* std::map as a key-sorted sequence of <<key, value>> pairs.              *)
(***************************************************************************)
EmptyMap == <<>>

\* map::find: the position of key k, 0 for end()
MapFind(m, k) ==
  IF \E i \in DOMAIN m : m[i][1] = k
  THEN CHOOSE i \in DOMAIN m : m[i][1] = k
  ELSE 0

\* where a new key k goes in the ordered map
MapRank(m, k) == Cardinality({i \in DOMAIN m : StrLess(m[i][1], k)})

\* a plausible slip: a container that keeps insertion order
MapInsertUnordered(m, k, v) ==
  IF MapFind(m, k) # 0 THEN m ELSE Append(m, <<k, v>>)

\* a plausible slip: insert_or_assign instead of insert
MapInsertOverwrite(m, k, v) ==
  IF MapFind(m, k) # 0
  THEN [m EXCEPT ![MapFind(m, k)] = <<k, v>>]
  ELSE SubSeq(m, 1, MapRank(m, k)) \o <<<<k, v>>>>
         \o SubSeq(m, MapRank(m, k) + 1, Len(m))

\* map::insert: does nothing when the key is present
MapInsert(m, k, v) ==
  IF MapFind(m, k) # 0
  THEN m
  ELSE SubSeq(m, 1, MapRank(m, k)) \o <<<<k, v>>>>
         \o SubSeq(m, MapRank(m, k) + 1, Len(m))

\* map::operator[] read: the value, default-constructed when absent
MapGet(m, k) == IF MapFind(m, k) # 0 THEN m[MapFind(m, k)][2] ELSE EmptyMap

\* m[k] = v: assigns whether or not the key is present
MapAssign(m, k, v) ==
  IF MapFind(m, k) # 0
  THEN [m EXCEPT ![MapFind(m, k)] = <<k, v>>]
  ELSE SubSeq(m, 1, MapRank(m, k)) \o <<<<k, v>>>>
         \o SubSeq(m, MapRank(m, k) + 1, Len(m))

\* categories[category].insert({key, entry})
CategoryInsert(cats, category, key, entry) ==
  MapAssign(cats, category, MapInsert(MapGet(cats, category), key, entry))

PluginEntry(key, className, name, printable, defer, category) ==
  [key |-> key, className |-> className, name |-> name,
   printable |-> printable, defer |-> defer, category |-> category]

(***************************************************************************)
(* Byte order.                                                             *)
(***************************************************************************)
RECURSIVE SwapSum(_, _, _)
SwapSum(val, totalBytes, i) ==
  IF i = totalBytes THEN 0
  ELSE ((val \div (256 ^ (totalBytes - i - 1))) % 256) * (256 ^ i)
         + SwapSum(val, totalBytes, i + 1)

swapByteOrder(val, totalBytes) == SwapSum(val, totalBytes, 0)

\* the bytes of a value in the host's memory (reinterpret_cast to uint8_t*)
HostBytes(val, n) == [i \in 1..n |-> (val \div (256 ^ (i - 1))) % 256]

RECURSIVE HostValue(_)
\* the value whose bytes in the host's memory are these
HostValue(bytes) ==
  IF bytes = <<>> THEN 0 ELSE bytes[1] + 256 * HostValue(Tail(bytes))

(***************************************************************************)
(* Writers.                                                                *)
(***************************************************************************)
writeBoolean(buffer, value) == Append(buffer, IF value THEN 1 ELSE 0)

\* the counts of the model are far below 2^31, where int would wrap
writeInt(buffer, value) ==
  buffer \o HostBytes(swapByteOrder(value, SizeofInt), SizeofInt)

\* static_cast<uint16_t> wraps a size the length field cannot hold
writeUTFString(buffer, str) ==
  buffer
    \o HostBytes(swapByteOrder(Len(str) % (256 ^ SizeofUint16), SizeofUint16),
                 SizeofUint16)
    \o str

RECURSIVE WritePlugins(_, _, _)
WritePlugins(buffer, plugins, j) ==
  IF j > Len(plugins) THEN buffer
  ELSE LET plugin == plugins[j][2]
           b1 == writeUTFString(buffer, plugin.key)
           b2 == writeUTFString(b1, plugin.className)
           b3 == writeUTFString(b2, plugin.name)
           b4 == writeBoolean(b3, plugin.printable)
           b5 == writeBoolean(b4, plugin.defer)
       IN WritePlugins(b5, plugins, j + 1)

RECURSIVE WriteCategories(_, _, _)
WriteCategories(buffer, categories, i) ==
  IF i > Len(categories) THEN buffer
  ELSE LET b1 == writeUTFString(buffer, categories[i][1])
           b2 == writeInt(b1, Len(categories[i][2]))
       IN WriteCategories(WritePlugins(b2, categories[i][2], 1), categories, i + 1)

writeLog4j2PluginCacheFile(categories) ==
  WriteCategories(writeInt(<<>>, Len(categories)), categories, 1)

(***************************************************************************)
(* Readers.  A stream is the istringstream over the buffer: its data, the  *)
(* number of bytes consumed and whether it is still good.  istream::read   *)
(* on a stream that is not good stores nothing; a read that reaches the    *)
(* end stores the bytes there are and sets failbit.  The destination then  *)
(* keeps indeterminate bytes: g is what such a read yields in this call    *)
(* (g.int for a uint32_t, g.len for a uint16_t, g.bool for a bool).        *)
(***************************************************************************)
Stream(bytes) == [data |-> bytes, pos |-> 0, good |-> TRUE]

\* istream::read(dst, n): the bytes stored and the stream afterwards
StreamRead(s, n) ==
  IF ~s.good THEN [got |-> <<>>, s |-> s]
  ELSE IF s.pos + n <= Len(s.data)
  THEN [got |-> SubSeq(s.data, s.pos + 1, s.pos + n),
        s |-> [s EXCEPT !.pos = s.pos + n]]
  ELSE [got |-> SubSeq(s.data, s.pos + 1, Len(s.data)),
        s |-> [s EXCEPT !.pos = Len(s.data), !.good = FALSE]]

\* the flag bytes of the inputs are 0 or 1; any other byte stored into a
\* bool is read here as true
readBool(s, g) ==
  LET r == StreamRead(s, SizeofBool)
  IN [val |-> IF Len(r.got) = SizeofBool THEN r.got[1] # 0 ELSE g.bool,
      s |-> r.s]

readInt(s, g) ==
  LET r == StreamRead(s, SizeofInt)
  IN [val |-> IF Len(r.got) = SizeofInt
              THEN swapByteOrder(HostValue(r.got), SizeofInt)
              ELSE g.int,
      s |-> r.s]

readUTFString(s, g) ==
  LET r == StreamRead(s, SizeofUint16)
      length == IF Len(r.got) = SizeofUint16
                THEN swapByteOrder(HostValue(r.got), SizeofUint16)
                ELSE g.len
      body == StreamRead(r.s, length)
  IN [val |-> [i \in 1..length |->
                 IF i <= Len(body.got) THEN body.got[i] ELSE 0],
      s |-> body.s]

RECURSIVE LoadEntries(_, _, _, _, _)
\* the inner loop of the loader, with `left` iterations to go
LoadEntries(s, categories, category, left, g) ==
  IF left = 0 THEN [s |-> s, categories |-> categories]
  ELSE LET key == readUTFString(s, g)
           className == readUTFString(key.s, g)
           name == readUTFString(className.s, g)
           printable == readBool(name.s, g)
           defer == readBool(printable.s, g)
           entry == PluginEntry(key.val, className.val, name.val,
                                printable.val, defer.val, category)
       IN LoadEntries(defer.s,
                      CategoryInsert(categories, category, key.val, entry),
                      category, left - 1, g)

RECURSIVE LoadCategories(_, _, _, _)
\* the outer loop of the loader, with `left` iterations to go
LoadCategories(s, categories, left, g) ==
  IF left = 0 THEN [s |-> s, categories |-> categories]
  ELSE LET category == readUTFString(s, g)
           entries == readInt(category.s, g)
           done == LoadEntries(entries.s, categories, category.val,
                               entries.val, g)
       IN LoadCategories(done.s, done.categories, left - 1, g)

\* the catalog returned, and the stream as the loader left it
LoadRun(bytes, g) ==
  LET categoriesCount == readInt(Stream(bytes), g)
  IN LoadCategories(categoriesCount.s, EmptyMap, categoriesCount.val, g)

loadLog4j2PluginCacheFile(bytes, g) == LoadRun(bytes, g).categories

Garbage ==
  [int : 0..MaxGarbage, len : 0..MaxGarbage, bool : BOOLEAN]

\* the g of a load that never reads it
NoGarbage == [int |-> 0, len |-> 0, bool |-> FALSE]

(***************************************************************************)
(* The fold of Merge.  diag_errx ends the process where it is called, so   *)
(* the accumulator is returned as it stands at that point.                 *)
(***************************************************************************)
NoDiag == [kind |-> "none", exit |-> 0, category |-> <<>>, key |-> <<>>]

\* diag_errx(1, "... Log4J2 plugin %s.%s is present in multiple jars", ...)
DuplicateDiag(category, key) ==
  [kind |-> "DuplicatePlugin", exit |-> 1, category |-> category, key |-> key]

\* diag_errx(2, "neither stored nor deflated")
UnsupportedDiag ==
  [kind |-> "UnsupportedCompression", exit |-> 2, category |-> <<>>, key |-> <<>>]

RECURSIVE FoldPluginsUnchecked(_, _, _, _, _)
\* a plausible slip: the duplicate is never reported
FoldPluginsUnchecked(acc, newCategoryId, newPlugins, j, strict) ==
  IF j > Len(newPlugins) THEN [categories |-> acc, diag |-> NoDiag]
  ELSE FoldPluginsUnchecked(
         CategoryInsert(acc, newCategoryId, newPlugins[j][1], newPlugins[j][2]),
         newCategoryId, newPlugins, j + 1, strict)

RECURSIVE FoldPlugins(_, _, _, _, _)
\* lines 131-141: the plugins of one incoming category, from the j-th on
FoldPlugins(acc, newCategoryId, newPlugins, j, strict) ==
  IF j > Len(newPlugins) THEN [categories |-> acc, diag |-> NoDiag]
  ELSE LET newPluginKey == newPlugins[j][1]
           newPlugin == newPlugins[j][2]
           existing == MapFind(MapGet(acc, newCategoryId), newPluginKey) # 0
       IN IF existing /\ strict
          THEN [categories |-> acc,
                diag |-> DuplicateDiag(newCategoryId, newPluginKey)]
          ELSE FoldPlugins(
                 CategoryInsert(acc, newCategoryId, newPluginKey, newPlugin),
                 newCategoryId, newPlugins, j + 1, strict)

RECURSIVE FoldCategoriesReplacing(_, _, _, _)
\* a plausible slip: a category already held is assigned like an absent one
FoldCategoriesReplacing(acc, incoming, i, strict) ==
  IF i > Len(incoming) THEN [categories |-> acc, diag |-> NoDiag]
  ELSE FoldCategoriesReplacing(
         MapAssign(acc, incoming[i][1], incoming[i][2]), incoming, i + 1, strict)

RECURSIVE FoldCategories(_, _, _, _)
\* lines 125-145: the incoming categories, from the i-th on
FoldCategories(acc, incoming, i, strict) ==
  IF i > Len(incoming) THEN [categories |-> acc, diag |-> NoDiag]
  ELSE LET newCategoryId == incoming[i][1]
           newPlugins == incoming[i][2]
           step == IF MapFind(acc, newCategoryId) # 0
                   THEN FoldPlugins(acc, newCategoryId, newPlugins, 1, strict)
                   ELSE [categories |->
                           MapAssign(acc, newCategoryId, newPlugins),
                         diag |-> NoDiag]
       IN IF step.diag # NoDiag THEN step
          ELSE FoldCategories(step.categories, incoming, i + 1, strict)

(***************************************************************************)
(* The input jars.  A cache file is a list of category records, each a     *)
(* name and a list of entries, in any order and with repeats; WireOf lays  *)
(* it out as section 4.1 of the specification gives the format.            *)
(***************************************************************************)
\* "b" and "ab": the shorter name is the greater one
Names == {<<98>>, <<97, 98>>}
\* "k" and "km": one key is a prefix of the other
Keys == {<<107>>, <<107, 109>>}
Payloads ==
  {[className |-> <<120>>, name |-> <<110>>, printable |-> TRUE, defer |-> FALSE],
   [className |-> <<121, 122>>, name |-> <<>>, printable |-> FALSE, defer |-> TRUE]}

Items == [category : Names, key : Keys, payload : Payloads]
ItemSeqs == UNION {[1..n -> Items] : n \in 0..MaxWireEntries}

EntryOf(item) ==
  PluginEntry(item.key, item.payload.className, item.payload.name,
              item.payload.printable, item.payload.defer, item.category)

\* one category record for each item
Ungrouped(q) ==
  [i \in 1..Len(q) |-> [name |-> q[i].category, entries |-> <<EntryOf(q[i])>>]]

RECURSIVE Grouped(_)
\* neighbouring items of one category share a record
Grouped(q) ==
  IF q = <<>> THEN <<>>
  ELSE LET rest == Grouped(Tail(q))
           e == EntryOf(Head(q))
       IN IF rest # <<>> /\ rest[1].name = Head(q).category
          THEN <<[name |-> rest[1].name, entries |-> <<e>> \o rest[1].entries]>>
                 \o Tail(rest)
          ELSE <<[name |-> Head(q).category, entries |-> <<e>>]>> \o rest

RECURSIVE WireEntries(_, _, _)
WireEntries(buffer, entries, j) ==
  IF j > Len(entries) THEN buffer
  ELSE WireEntries(
         writeBoolean(
           writeBoolean(
             writeUTFString(
               writeUTFString(writeUTFString(buffer, entries[j].key),
                              entries[j].className),
               entries[j].name),
             entries[j].printable),
           entries[j].defer),
         entries, j + 1)

RECURSIVE WireRecords(_, _, _)
WireRecords(buffer, records, i) ==
  IF i > Len(records) THEN buffer
  ELSE WireRecords(
         WireEntries(
           writeInt(writeUTFString(buffer, records[i].name),
                    Len(records[i].entries)),
           records[i].entries, 1),
         records, i + 1)

WireOf(records) == WireRecords(writeInt(<<>>, Len(records)), records, 1)

\* a jar's plugins all come from one build of it: one payload, no pair twice
JarSeqs ==
  {q \in ItemSeqs :
     /\ \A i, j \in DOMAIN q : q[i].payload = q[j].payload
     /\ \A i, j \in DOMAIN q :
          (q[i].category = q[j].category /\ q[i].key = q[j].key) => i = j}

JarContents ==
  {WireOf(Grouped(q)) : q \in JarSeqs} \cup {WireOf(Ungrouped(q)) : q \in JarSeqs}

Methods == {Z_NO_COMPRESSION, Z_DEFLATED} \cup OtherMethods

\* whether the loader reads the whole of its input without reaching the end
Complete(bytes) == LoadRun(bytes, NoGarbage).s.good

\* the indeterminate values a load of these bytes may meet: none when it is
\* complete
GarbageFor(bytes) == IF Complete(bytes) THEN {NoGarbage} ELSE Garbage

\* what the loader returns for each jar content, for each g it may meet
JarLoad ==
  [content \in JarContents |->
     [g \in GarbageFor(content) |-> loadLog4j2PluginCacheFile(content, g)]]

(***************************************************************************)
(* The combiner.                                                           *)
(***************************************************************************)
CodecIdle ==
  /\ cat = EmptyMap
  /\ buf = <<>>
  /\ fromCat = FALSE
  /\ loaded = EmptyMap

Init ==
  /\ categories_ = EmptyMap
  /\ no_duplicates_ \in BOOLEAN
  /\ inflater_ = FALSE
  /\ concatenator_ = <<>>
  /\ method = <<>>
  /\ newCategories = EmptyMap
  /\ diag = NoDiag
  /\ pc = "run"
  /\ CodecIdle

\* a plausible slip: the diagnostic does not end the run
MergeOnReporting(m, content, g) ==
  LET new == JarLoad[content][g]
      r == FoldCategories(categories_, new, 1, no_duplicates_)
  IN /\ method' = <<m>>
     /\ inflater_' = (inflater_ \/ m = Z_DEFLATED)
     /\ newCategories' = new
     /\ categories_' = r.categories
     /\ diag' = IF m \notin {Z_NO_COMPRESSION, Z_DEFLATED}
                THEN UnsupportedDiag ELSE r.diag
     /\ UNCHANGED <<no_duplicates_, concatenator_, pc, cat, buf, fromCat, loaded>>

\* Merge of an entry with compression method m whose uncompressed content
\* is `content`
MergeOn(m, content, g) ==
  IF m \notin {Z_NO_COMPRESSION, Z_DEFLATED}
  THEN /\ method' = <<m>>
       /\ diag' = UnsupportedDiag
       /\ UNCHANGED <<categories_, no_duplicates_, inflater_, concatenator_,
                      newCategories, pc, cat, buf, fromCat, loaded>>
  ELSE LET new == JarLoad[content][g]
           r == FoldCategories(categories_, new, 1, no_duplicates_)
       IN /\ method' = <<m>>
          /\ inflater_' = (inflater_ \/ m = Z_DEFLATED)
          /\ newCategories' = new
          /\ categories_' = r.categories
          /\ diag' = r.diag
          /\ UNCHANGED <<no_duplicates_, concatenator_, pc, cat, buf, fromCat,
                         loaded>>

\* The pipeline hands the combiner the matching entry of each input jar and
\* calls OutputEntry after the last of them (sections 4.3 and 6 of the
\* specification): no Merge follows an OutputEntry.  diag_errx has ended
\* the process once diag is set.
Merge ==
  /\ pc = "run"
  /\ diag = NoDiag
  /\ concatenator_ = <<>>
  /\ \E m \in Methods, content \in JarContents :
       \E g \in DOMAIN JarLoad[content] : MergeOn(m, content, g)

\* a plausible slip: the accumulator is moved into the writer
OutputEntryConsuming ==
  /\ pc = "run"
  /\ diag = NoDiag
  /\ Len(concatenator_) < MaxOutputs
  /\ concatenator_' =
       Append(concatenator_, writeLog4j2PluginCacheFile(categories_))
  /\ categories_' = EmptyMap
  /\ UNCHANGED <<no_duplicates_, inflater_, method, newCategories, diag, pc,
                 cat, buf, fromCat, loaded>>

\* the compress flag goes to the concatenator alone and is left out
OutputEntry ==
  /\ pc = "run"
  /\ diag = NoDiag
  /\ Len(concatenator_) < MaxOutputs
  /\ concatenator_' =
       Append(concatenator_, writeLog4j2PluginCacheFile(categories_))
  /\ UNCHANGED <<categories_, no_duplicates_, inflater_, method, newCategories,
                 diag, pc, cat, buf, fromCat, loaded>>

Next == Merge \/ OutputEntry

Spec == Init /\ [][Next]_vars

(***************************************************************************)
(* The codec on its own: writeLog4j2PluginCacheFile applied to a catalog   *)
(* and loadLog4j2PluginCacheFile applied to what it wrote, or to a buffer  *)
(* taken from a jar, whole or cut short.                                   *)
(***************************************************************************)
RECURSIVE CatalogFrom(_, _)
\* the catalog holding the items of q, put in one after the other
CatalogFrom(categories, q) ==
  IF q = <<>> THEN categories
  ELSE CatalogFrom(
         CategoryInsert(categories, Head(q).category, Head(q).key,
                        EntryOf(Head(q))),
         Tail(q))

SmallCatalogs == {CatalogFrom(EmptyMap, q) : q \in ItemSeqs}

\* a catalog one of whose categories holds no entry
EmptyCategoryCatalogs ==
  {MapAssign(c, n, EmptyMap) : c \in SmallCatalogs, n \in Names}

\* the longest string whose length the uint16_t length field holds
UTFMax == (256 ^ SizeofUint16) - 1

Zeros(n) == [i \in 1..n |-> 0]

\* one category with one entry, one of whose strings has n bytes
LongCatalog(field, n) ==
  LET category == IF field = "category" THEN Zeros(n) ELSE <<98>>
      key == IF field = "key" THEN Zeros(n) ELSE <<107>>
      className == IF field = "className" THEN Zeros(n) ELSE <<120>>
      name == IF field = "name" THEN Zeros(n) ELSE <<110>>
  IN <<<<category,
         <<<<key, PluginEntry(key, className, name, TRUE, FALSE, category)>>>>
       >>>>

LongCatalogs ==
  {LongCatalog(field, n) :
     field \in {"category", "key", "className", "name"},
     n \in {UTFMax, UTFMax + 1}}

CodecCatalogs == SmallCatalogs \cup EmptyCategoryCatalogs \cup LongCatalogs

\* cache files as jars hold them: any order, pairs repeated, empty records
WholeBuffers ==
  {WireOf(Grouped(q)) : q \in ItemSeqs}
    \cup {WireOf(Ungrouped(q)) : q \in ItemSeqs}
    \cup {WireOf(Ungrouped(q) \o <<[name |-> n, entries |-> <<>>]>>) :
            q \in JarSeqs, n \in Names}

\* the same, ending early
CutBuffers ==
  UNION {{SubSeq(b, 1, n) : n \in 0..(Len(b) - 1)} : b \in JarContents}

CodecBuffers == WholeBuffers \cup CutBuffers

CombinerIdle ==
  /\ categories_ = EmptyMap
  /\ inflater_ = FALSE
  /\ concatenator_ = <<>>
  /\ method = <<>>
  /\ newCategories = EmptyMap
  /\ diag = NoDiag

InitCodec ==
  /\ CombinerIdle
  /\ no_duplicates_ \in BOOLEAN
  /\ loaded = EmptyMap
  /\ \/ /\ pc = "write"
        /\ cat \in CodecCatalogs
        /\ buf = <<>>
        /\ fromCat = TRUE
     \/ /\ pc = "load"
        /\ cat = EmptyMap
        /\ buf \in CodecBuffers
        /\ fromCat = FALSE

Write ==
  /\ pc = "write"
  /\ buf' = writeLog4j2PluginCacheFile(cat)
  /\ pc' = "load"
  /\ UNCHANGED <<categories_, no_duplicates_, inflater_, concatenator_, method,
                 newCategories, diag, cat, fromCat, loaded>>

Load ==
  /\ pc = "load"
  /\ \E g \in GarbageFor(buf) : loaded' = loadLog4j2PluginCacheFile(buf, g)
  /\ pc' = "done"
  /\ UNCHANGED <<categories_, no_duplicates_, inflater_, concatenator_, method,
                 newCategories, diag, cat, buf, fromCat>>

NextCodec == Write \/ Load

SpecCodec == InitCodec /\ [][NextCodec]_vars

(***************************************************************************)
(* What a buffer holds, read field by field in the order of the format:    *)
(* the category records in wire order, each with its entries in wire       *)
(* order.  Used on buffers that are complete.                              *)
(***************************************************************************)
RECURSIVE ScanEntries(_, _, _, _)
ScanEntries(s, category, left, out) ==
  IF left = 0 THEN [s |-> s, entries |-> out]
  ELSE LET key == readUTFString(s, NoGarbage)
           className == readUTFString(key.s, NoGarbage)
           name == readUTFString(className.s, NoGarbage)
           printable == readBool(name.s, NoGarbage)
           defer == readBool(printable.s, NoGarbage)
       IN ScanEntries(defer.s, category, left - 1,
                      Append(out, PluginEntry(key.val, className.val, name.val,
                                              printable.val, defer.val,
                                              category)))

RECURSIVE ScanRecords(_, _, _)
ScanRecords(s, left, out) ==
  IF left = 0 THEN out
  ELSE LET category == readUTFString(s, NoGarbage)
           entries == readInt(category.s, NoGarbage)
           done == ScanEntries(entries.s, category.val, entries.val, <<>>)
       IN ScanRecords(done.s, left - 1,
                      Append(out, [name |-> category.val,
                                   entries |-> done.entries]))

Scan(bytes) ==
  LET categoriesCount == readInt(Stream(bytes), NoGarbage)
  IN ScanRecords(categoriesCount.s, categoriesCount.val, <<>>)

RECURSIVE Flatten(_)
\* the entries of all records, in wire order
Flatten(records) ==
  IF records = <<>> THEN <<>>
  ELSE Head(records).entries \o Flatten(Tail(records))

\* the (category, key) pairs of a catalog
Pairs(categories) ==
  UNION {{<<categories[i][1], categories[i][2][j][1]>> :
            j \in DOMAIN categories[i][2]} : i \in DOMAIN categories}

Has(categories, category, key) == <<category, key>> \in Pairs(categories)

\* the entry a catalog holds under a pair it has
Lookup(categories, category, key) == MapGet(MapGet(categories, category), key)

\* the strings of a catalog: category names, keys, class names and names
Strings(categories) ==
  UNION {{categories[i][1]}
           \cup UNION {{categories[i][2][j][2].key,
                        categories[i][2][j][2].className,
                        categories[i][2][j][2].name} :
                         j \in DOMAIN categories[i][2]} :
         i \in DOMAIN categories}

TooLong(categories) == \E str \in Strings(categories) : Len(str) > UTFMax

(***************************************************************************)
(* C1 (as claimed): with strict off, after a Merge every pair of the       *)
(* incoming catalog is held by the accumulator with the incoming entry,    *)
(* also when the accumulator already held that pair: the last catalog      *)
(* merged wins.                                                            *)
(***************************************************************************)
C1_LastProcessedWins ==
  (pc = "run" /\ ~no_duplicates_ /\ diag = NoDiag) =>
    \A p \in Pairs(newCategories) :
      /\ Has(categories_, p[1], p[2])
      /\ Lookup(categories_, p[1], p[2]) = Lookup(newCategories, p[1], p[2])

(***************************************************************************)
(* C2: with strict on, a Merge whose incoming catalog shares a pair with   *)
(* the accumulator ends with the duplicate-plugin diagnostic naming a      *)
(* shared pair, and a Merge that shares none ends with no diagnostic.      *)
(***************************************************************************)
C2_StrictDuplicateRejected ==
  [][(/\ pc = "run"
      /\ no_duplicates_
      /\ concatenator_' = concatenator_
      /\ diag'.kind # "UnsupportedCompression")
     => LET common == Pairs(categories_) \cap Pairs(newCategories')
        IN /\ common # {} =>
                /\ diag'.kind = "DuplicatePlugin"
                /\ <<diag'.category, diag'.key>> \in common
           /\ common = {} => diag' = NoDiag]_vars

C2_Witness ==
  /\ pc = "run"
  /\ no_duplicates_
  /\ diag.kind = "DuplicatePlugin"
  /\ Has(newCategories, diag.category, diag.key)
  /\ Has(categories_, diag.category, diag.key)

Ascending(strings) ==
  \A i \in 1..(Len(strings) - 1) : StrLess(strings[i], strings[i + 1])

SortedWire(records) ==
  /\ Ascending([i \in DOMAIN records |-> records[i].name])
  /\ \A i \in DOMAIN records :
       Ascending([j \in DOMAIN records[i].entries |-> records[i].entries[j].key])

(***************************************************************************)
(* C3: every buffer OutputEntry hands to the archive writer lists its      *)
(* categories in strictly ascending order of name and, in each category,   *)
(* its entries in strictly ascending order of key.                         *)
(***************************************************************************)
C3_SortedOutput ==
  \A n \in DOMAIN concatenator_ : SortedWire(Scan(concatenator_[n]))

\* an output of two categories, one of two entries, where the category put
\* in last is the one written first
C3_Witness ==
  /\ concatenator_ # <<>>
  /\ Len(categories_) = 2
  /\ Len(newCategories) = 1
  /\ newCategories[1][1] = categories_[1][1]
  /\ Len(categories_[1][2]) = 2
  /\ Len(newCategories[1][2]) = 1
  /\ newCategories[1][2][1][1] = categories_[1][2][1][1]

(***************************************************************************)
(* C4 (as claimed): the catalog loaded from what was written from a        *)
(* catalog is that catalog.                                                *)
(***************************************************************************)
C4_RoundTrip == (pc = "done" /\ fromCat) => loaded = cat

NoEmptyCategory(categories) ==
  \A i \in DOMAIN categories : categories[i][2] # EmptyMap

(***************************************************************************)
(* C4, on the catalogs the combiner can hold (no category is empty, no     *)
(* string is longer than the length field can say): the catalog loaded     *)
(* from what was written from a catalog is that catalog.                   *)
(***************************************************************************)
C4_RoundTripOfHeldCatalogs ==
  (pc = "done" /\ fromCat /\ NoEmptyCategory(cat) /\ ~TooLong(cat)) =>
    loaded = cat

C4_HeldCatalogWitness ==
  /\ pc = "done"
  /\ fromCat
  /\ Len(cat) = 2
  /\ NoEmptyCategory(cat)
  /\ cat[1][2][1][2].name = <<>>
  /\ loaded = cat

(***************************************************************************)
(* C5 (as claimed): a Merge that ends with the duplicate-plugin diagnostic *)
(* leaves the accumulator as it was before that Merge.                     *)
(***************************************************************************)
C5_FailedMergeNotApplied ==
  [][diag'.kind = "DuplicatePlugin" => categories_' = categories_]_vars

(***************************************************************************)
(* C6: a Merge of an entry whose compression method is neither stored nor  *)
(* deflated ends with the unsupported-compression diagnostic and changes   *)
(* neither the accumulator nor the last decoded catalog nor the inflater:  *)
(* nothing was decoded and nothing folded.                                 *)
(***************************************************************************)
C6_UnsupportedCompression ==
  [][(/\ pc = "run"
      /\ concatenator_' = concatenator_
      /\ method' # <<Z_NO_COMPRESSION>>
      /\ method' # <<Z_DEFLATED>>)
     => /\ diag' = UnsupportedDiag
        /\ categories_' = categories_
        /\ newCategories' = newCategories
        /\ inflater_' = inflater_]_vars

C6_Witness ==
  /\ diag = UnsupportedDiag
  /\ method # <<>>
  /\ method[1] \in OtherMethods
  /\ categories_ # EmptyMap

(***************************************************************************)
(* C7 (as claimed): a load of a buffer that ends before a field is         *)
(* complete ends with a format error and returns no catalog.               *)
(***************************************************************************)
C7_TruncatedRejected ==
  (pc = "done" /\ ~fromCat /\ ~Complete(buf)) =>
    (diag.kind = "FormatError" /\ loaded = EmptyMap)

RECURSIVE PluginFields(_, _)
PluginFields(plugins, j) ==
  IF j > Len(plugins) THEN <<>>
  ELSE <<[str |-> TRUE, s |-> plugins[j][2].key],
         [str |-> TRUE, s |-> plugins[j][2].className],
         [str |-> TRUE, s |-> plugins[j][2].name],
         [str |-> FALSE, s |-> Zeros(SizeofBool)],
         [str |-> FALSE, s |-> Zeros(SizeofBool)]>>
         \o PluginFields(plugins, j + 1)

RECURSIVE CategoryFields(_, _)
CategoryFields(categories, i) ==
  IF i > Len(categories) THEN <<>>
  ELSE <<[str |-> TRUE, s |-> categories[i][1]],
         [str |-> FALSE, s |-> Zeros(SizeofInt)]>>
         \o PluginFields(categories[i][2], 1)
         \o CategoryFields(categories, i + 1)

\* the fields of the written form of a catalog, in order, with their widths
Fields(categories) ==
  <<[str |-> FALSE, s |-> Zeros(SizeofInt)]>> \o CategoryFields(categories, 1)

RECURSIVE LengthsMatch(_, _, _, _)
\* from field k on, which starts after `at` bytes
LengthsMatch(bytes, fields, k, at) ==
  IF k > Len(fields) THEN TRUE
  ELSE IF ~fields[k].str
  THEN LengthsMatch(bytes, fields, k + 1, at + Len(fields[k].s))
  ELSE /\ at + SizeofUint16 <= Len(bytes)
       /\ 256 * bytes[at + 1] + bytes[at + 2] = Len(fields[k].s)
       /\ LengthsMatch(bytes, fields, k + 1,
                       at + SizeofUint16 + Len(fields[k].s))

(***************************************************************************)
(* C8 (as claimed): writing a catalog that holds a string longer than the  *)
(* length field can say ends with a format error, and every length field   *)
(* written is the number of string bytes that follow it.                   *)
(***************************************************************************)
C8_LongStringRejected ==
  (pc # "write" /\ pc # "run" /\ fromCat) =>
    /\ TooLong(cat) => diag.kind = "FormatError"
    /\ diag.kind # "FormatError" => LengthsMatch(buf, Fields(cat), 1, 0)

SamePair(e, f) == e.category = f.category /\ e.key = f.key

(***************************************************************************)
(* C9 (as claimed): when a buffer holds a pair more than once, the catalog *)
(* loaded from it holds the last of its entries, whatever the strict       *)
(* setting.                                                                *)
(***************************************************************************)
C9_LaterOccurrenceKept ==
  (pc = "done" /\ ~fromCat /\ Complete(buf)) =>
    LET w == Flatten(Scan(buf))
    IN \A i \in DOMAIN w :
         (\A j \in DOMAIN w : SamePair(w[i], w[j]) => j <= i)
           => /\ Has(loaded, w[i].category, w[i].key)
              /\ Lookup(loaded, w[i].category, w[i].key) = w[i]

(***************************************************************************)
(* C9 (amended): when a buffer holds a pair more than once, the catalog    *)
(* loaded from it holds the first of its entries and drops the later       *)
(* ones, whatever the strict setting.                                      *)
(***************************************************************************)
C9_EarlierOccurrenceKept ==
  (pc = "done" /\ ~fromCat /\ Complete(buf)) =>
    LET w == Flatten(Scan(buf))
    IN \A i \in DOMAIN w :
         (\A j \in DOMAIN w : SamePair(w[i], w[j]) => i <= j)
           => /\ Has(loaded, w[i].category, w[i].key)
              /\ Lookup(loaded, w[i].category, w[i].key) = w[i]

C9_Witness ==
  /\ pc = "done"
  /\ ~fromCat
  /\ Complete(buf)
  /\ no_duplicates_
  /\ LET w == Flatten(Scan(buf))
     IN /\ Len(w) = 2
        /\ SamePair(w[1], w[2])
        /\ w[1] # w[2]
        /\ Lookup(loaded, w[1].category, w[1].key) = w[1]

(***************************************************************************)
(* C10: OutputEntry leaves the accumulator as it is, and hands the archive *)
(* writer the same bytes as the OutputEntry call before it did.            *)
(***************************************************************************)
C10_OutputEntryReadsOnly ==
  [][Len(concatenator_') > Len(concatenator_)
     => /\ categories_' = categories_
        /\ concatenator_ # <<>> =>
             concatenator_'[Len(concatenator_')]
               = concatenator_[Len(concatenator_)]]_vars

C10_Witness ==
  /\ Len(concatenator_) = 2
  /\ Len(categories_) = 2
  /\ concatenator_[2] = writeLog4j2PluginCacheFile(categories_)

(***************************************************************************)
(* C11: the accumulator starts with no pair; every Merge that ends without *)
(* a diagnostic, under either strict setting, leaves the accumulator with  *)
(* exactly the pairs it held before and the pairs of the catalog merged,   *)
(* so that its pairs are the union of the pairs of all catalogs merged so  *)
(* far; and no step, a Merge that fails included, takes a pair away.       *)
(***************************************************************************)
C11_PairsAreUnionOfMerged ==
  /\ Pairs(categories_) = {}
  /\ [][/\ (concatenator_' = concatenator_ /\ diag' = NoDiag) =>
             Pairs(categories_') = Pairs(categories_) \cup Pairs(newCategories')
        /\ Pairs(categories_) \subseteq Pairs(categories_')]_vars

\* after a Merge into a category already held: one pair was shared and the
\* accumulator kept its own entry for it, one pair is new to that category,
\* and a pair of an earlier Merge in another category is still held
C11_Witness ==
  /\ pc = "run"
  /\ diag = NoDiag
  /\ concatenator_ = <<>>
  /\ Cardinality(Pairs(newCategories)) = 2
  /\ Len(newCategories) = 1
  /\ Cardinality(Pairs(categories_)) = 3
  /\ Len(categories_) = 2
  /\ \E p \in Pairs(newCategories) :
       Lookup(categories_, p[1], p[2]) # Lookup(newCategories, p[1], p[2])

====
